---- MODULE Spec2Model ----
(***************************************************************************)
(* Client-side session / API-request pipeline of the property-management   *)
(* frontend: the axios client with its request and response interceptors,  *)
(* the login form, the route guard, the sidebar's sign-out and the list    *)
(* views' fetches.  The Auth Context (context/AuthContext) is not part of  *)
(* the sources at hand; it is modelled from its description.               *)
(***************************************************************************)
EXTENDS Integers, Sequences, FiniteSets, TLC

\* ------------------------------------------------------------------ bounds
MaxReq == 3            \* requests issued through the API client in one run
MaxCalls == 5          \* requests issued by a view and its modals in one run
MaxToggles == 1        \* unit status toggles started while the modal is open
MaxSubmits == 1        \* submissions of the Edit Property form

\* ------------------------------------------------------------- vocabulary
null == <<>>           \* JS null / undefined: an absent value
Some(v) == <<v>>       \* a present value
Get(o) == o[1]

Tokens == {"T1", "T2"}
Users == { [id |-> "u1", role |-> "ADMIN"], [id |-> "u2", role |-> "STAFF"] }

LoginPath == "/login"
DashboardPath == "/dashboard"
RootPath == "/"
\* the children of /dashboard that have a list view modelled here
AccountPath == "/dashboard/account-management"
\* the list views that are explored: one of the common ones and the
\* account-management view
Pages == {"/dashboard/landlords", AccountPath}
ProtectedPaths == {DashboardPath} \cup Pages
Paths == {RootPath, LoginPath} \cup ProtectedPaths

LoginEndpoint == "/auth/login"

\* HTTP outcomes the backend (or the network) can produce for a request
Statuses == {200, 401, 500}
NetworkError == [hasResponse |-> FALSE, status |-> 0, data |-> null]
HttpResponse(s, d) == [hasResponse |-> TRUE, status |-> s, data |-> d]

VARIABLES
  localStorage,    \* durable browser storage: keys 'token' and 'user'
  authState,       \* Auth Context's in-memory state: token and user
  location,        \* the router's location (what is mounted)
  href,            \* window.location.href as last assigned
  reloadPending,   \* a full navigation was requested and has not loaded yet
  screen,          \* the element the route table rendered
  inflight,        \* requests sent through the API client, not yet settled
  nextId,          \* id of the next request
  outcome,         \* how the API client settled the last response
  toast,           \* type of the last notification shown
  everHeld,        \* history: tokens that have been stored
  cleared401,      \* history: a 401 cleared the session and no login followed
  client,          \* which copy of services/api the views import
  selectedUser,    \* AccountManagement: the user picked for editing
  isEditModalOpen, \* AccountManagement: the Edit User modal is open
  leases,               \* Leases: the collection shown
  isCreateModalOpen,    \* Leases: the Create Lease modal is open
  isTerminateModalOpen, \* Leases: the confirmation modal is open
  selectedLeaseId,      \* Leases: the lease the confirmation is about
  isTerminating,        \* Leases: a terminate request is pending
  properties,           \* CreateLeaseModal: the property options
  tenants,              \* CreateLeaseModal: the tenant options
  newestApplied,        \* history: highest id of a fetch applied to leases
  isOpen,               \* Properties: the Edit Property modal is open
  landlords,            \* EditPropertyModal: the landlord options
  existingUnits,        \* EditPropertyModal: the units displayed as existing
  unitsToDelete,        \* EditPropertyModal: the units marked for deletion
  isSubmitting,         \* EditPropertyModal: a submission is running
  submission,           \* EditPropertyModal.onSubmit: where the handler is
  closures,             \* toggleUnitStatus: the list each pending call captured
  started               \* history: toggles and submissions started so far

vars == <<localStorage, authState, location, href, reloadPending, screen,
          inflight, nextId, outcome, toast, everHeld, cleared401, client,
          selectedUser, isEditModalOpen, leases, isCreateModalOpen,
          isTerminateModalOpen, selectedLeaseId, isTerminating, properties,
          tenants, newestApplied, isOpen, landlords, existingUnits,
          unitsToDelete, isSubmitting, submission, closures, started>>

\* the state of the Leases view and its modals
leasesVars == <<leases, isCreateModalOpen, isTerminateModalOpen,
                selectedLeaseId, isTerminating, properties, tenants,
                newestApplied>>

\* the state of the Edit Property modal and of its handlers
propertyVars == <<isOpen, landlords, existingUnits, unitsToDelete,
                  isSubmitting, submission, closures, started>>

\* the state of the views outside the session and account-management part
viewVars == <<leasesVars, propertyVars>>

\* what the views' handlers never touch
sessionFrame == <<authState, location, screen, everHeld, selectedUser,
                  isEditModalOpen>>

\* ------------------------------------------------- browser storage (strings)
getItem(ls, k) == ls[k]
setItem(ls, k, v) == [ls EXCEPT ![k] = Some(v)]
removeItem(ls, k) == [ls EXCEPT ![k] = null]
EmptyStorage == [token |-> null, user |-> null]

\* JS truthiness of a string-or-null value
Truthy(o) == o # null /\ Get(o) # ""

\* ------------------------------------------------------------ Session Store
\* JSON.stringify / JSON.parse of a user profile: the stored form is a
\* string, here the tuple of the profile's fields
Stringify(u) == <<u.id, u.role>>
WellFormed(s) == Len(s) = 2
Parse(s) == [id |-> s[1], role |-> s[2]]

save(ls, token, user) ==
  setItem(setItem(ls, "token", token), "user", Stringify(user))

clear(ls) == removeItem(removeItem(ls, "token"), "user")

load(ls) ==
  LET t == getItem(ls, "token")
      u == getItem(ls, "user")
  IN IF Truthy(t) /\ u # null /\ WellFormed(Get(u))
     THEN [token |-> t, user |-> Some(Parse(Get(u)))]
     ELSE [token |-> null, user |-> null]

\* ------------------------------------------------------------- Auth Context
LoggedOut == [token |-> null, user |-> null]

\* login(token, user): store both, update the in-memory state
login(ls, token, user) ==
  [localStorage |-> save(ls, token, user),
   authState |-> [token |-> Some(token), user |-> Some(user)]]

\* logout(): clear the store, reset the in-memory state
logout(ls) == [localStorage |-> clear(ls), authState |-> LoggedOut]

isAuthenticated(st) == Truthy(st.token)
IsAuthenticated == isAuthenticated(authState)

\* --------------------------------------------------------------- API client
NewConfig(path) == [path |-> path, headers |-> [Authorization |-> null]]

\* variant: the header is the bare token, without the scheme
RequestInterceptor_NoScheme(config, ls) ==
  LET token == getItem(ls, "token")
  IN IF Truthy(token)
     THEN [config EXCEPT !.headers.Authorization = Some(Get(token))]
     ELSE config

\* variant: the header is set without testing the token
RequestInterceptor_Always(config, ls) ==
  LET token == getItem(ls, "token")
  IN [config EXCEPT !.headers.Authorization =
        Some("Bearer " \o (IF token = null THEN "null" ELSE Get(token)))]

\* api.interceptors.request.use
RequestInterceptor(config, ls) ==
  LET token == getItem(ls, "token")
  IN IF Truthy(token)
     THEN [config EXCEPT !.headers.Authorization = Some("Bearer " \o Get(token))]
     ELSE config

\* axios settles a response as fulfilled for a 2xx status, as rejected for
\* any other status and when there is no response at all
ValidateStatus(resp) ==
  resp.hasResponse /\ resp.status >= 200 /\ resp.status < 300

\* api.interceptors.response.use, first handler: (response) => response
onFulfilled(response, win) ==
  [win |-> win, result |-> [settled |-> "fulfilled", value |-> response]]

\* variant: only the token is removed on a 401
onRejected_KeepsUser(error, win) ==
  LET after ==
        IF error.hasResponse /\ error.status = 401
        THEN [localStorage |-> removeItem(win.localStorage, "token"),
              href |-> LoginPath,
              reloadPending |-> TRUE]
        ELSE win
  IN [win |-> after, result |-> [settled |-> "rejected", value |-> error]]

\* variant: only the user is removed on a 401
onRejected_KeepsToken(error, win) ==
  LET after ==
        IF error.hasResponse /\ error.status = 401
        THEN [localStorage |-> removeItem(win.localStorage, "user"),
              href |-> LoginPath,
              reloadPending |-> TRUE]
        ELSE win
  IN [win |-> after, result |-> [settled |-> "rejected", value |-> error]]

\* variant: a 401 redirects but leaves the storage alone
onRejected_NoClear(error, win) ==
  LET after ==
        IF error.hasResponse /\ error.status = 401
        THEN [localStorage |-> win.localStorage,
              href |-> LoginPath,
              reloadPending |-> TRUE]
        ELSE win
  IN [win |-> after, result |-> [settled |-> "rejected", value |-> error]]

\* variant: a 401 clears the storage but does not navigate
onRejected_NoReload(error, win) ==
  LET after ==
        IF error.hasResponse /\ error.status = 401
        THEN [localStorage |->
                removeItem(removeItem(win.localStorage, "token"), "user"),
              href |-> win.href,
              reloadPending |-> win.reloadPending]
        ELSE win
  IN [win |-> after, result |-> [settled |-> "rejected", value |-> error]]

\* variant: the 401 branch returns instead of rejecting
onRejected_Swallows(error, win) ==
  LET is401 == error.hasResponse /\ error.status = 401
      after ==
        IF is401
        THEN [localStorage |->
                removeItem(removeItem(win.localStorage, "token"), "user"),
              href |-> LoginPath,
              reloadPending |-> TRUE]
        ELSE win
  IN [win |-> after,
      result |-> [settled |-> IF is401 THEN "fulfilled" ELSE "rejected",
                  value |-> error]]

\* variant: every error status is treated as an authorization failure
onRejected_AnyStatus(error, win) ==
  LET after ==
        IF error.hasResponse
        THEN [localStorage |->
                removeItem(removeItem(win.localStorage, "token"), "user"),
              href |-> LoginPath,
              reloadPending |-> TRUE]
        ELSE win
  IN [win |-> after, result |-> [settled |-> "rejected", value |-> error]]

\* api.interceptors.response.use, second handler; win is the browser state
\* the handler can touch: localStorage and window.location
onRejected(error, win) ==
  LET after ==
        IF error.hasResponse /\ error.status = 401
        THEN [localStorage |->
                removeItem(removeItem(win.localStorage, "token"), "user"),
              href |-> LoginPath,
              reloadPending |-> TRUE]
        ELSE win
  IN [win |-> after, result |-> [settled |-> "rejected", value |-> error]]

\* the two copies of services/api: one registers the request and the
\* response interceptor, the other the request interceptor only
ApiFull == "request+response"
ApiRequestOnly == "request"

\* without a response interceptor axios hands the error to the caller
Unhandled(error, win) ==
  [win |-> win, result |-> [settled |-> "rejected", value |-> error]]

Settle(resp, win) ==
  IF client = ApiRequestOnly
  THEN IF ValidateStatus(resp)
       THEN [win |-> win, result |-> [settled |-> "fulfilled", value |-> resp]]
       ELSE Unhandled(resp, win)
  ELSE IF ValidateStatus(resp) THEN onFulfilled(resp, win) ELSE onRejected(resp, win)

Window == [localStorage |-> localStorage, href |-> href,
           reloadPending |-> reloadPending]

\* ------------------------------------------------------------------ routing
LoginEl == [el |-> "Login", to |-> ""]
ShellEl == [el |-> "DashboardLayout", to |-> ""]
NavigateEl(p) == [el |-> "Navigate", to |-> p]

\* variant: the guard's test is inverted
ProtectedRoute_Inverted(isAuth, children) ==
  IF isAuth THEN NavigateEl(LoginPath) ELSE children

ProtectedRoute(isAuth, children) ==
  IF ~isAuth THEN NavigateEl(LoginPath) ELSE children

AppRoutes(path, isAuth) ==
  CASE path = LoginPath -> LoginEl
    [] path \in ProtectedPaths -> ProtectedRoute(isAuth, ShellEl)
    [] path = RootPath -> NavigateEl(DashboardPath)

\* variant: the dashboard's test is for the other role
Dashboard_Inverted(user) ==
  IF user # null /\ Get(user).role = "ADMIN"
  THEN "StaffDashboard"
  ELSE "AdminDashboard"

\* Dashboard: user?.role === 'STAFF' selects the staff view
Dashboard(user) ==
  IF user # null /\ Get(user).role = "STAFF"
  THEN "StaffDashboard"
  ELSE "AdminDashboard"

\* variant: the account-management route renders nothing for a non-admin
Outlet_RoleGated(path, user) ==
  CASE path = DashboardPath -> Dashboard(user)
    [] path = "/dashboard/tenants" -> "Tenants"
    [] path = "/dashboard/properties" -> "Properties"
    [] path = "/dashboard/landlords" -> "Landlords"
    [] path = AccountPath ->
         IF user # null /\ Get(user).role = "ADMIN"
         THEN "AccountManagement"
         ELSE "none"

\* the child routes of /dashboard: what the shell's <Outlet /> renders
Outlet(path, user) ==
  CASE path = DashboardPath -> Dashboard(user)
    [] path = "/dashboard/tenants" -> "Tenants"
    [] path = "/dashboard/properties" -> "Properties"
    [] path = "/dashboard/landlords" -> "Landlords"
    [] path = AccountPath -> "AccountManagement"

\* Sidebar: the items every user gets
navItems ==
  << [name |-> "Dashboard", path |-> "/dashboard"],
     [name |-> "Tenants", path |-> "/dashboard/tenants"],
     [name |-> "Properties", path |-> "/dashboard/properties"],
     [name |-> "Landlords", path |-> "/dashboard/landlords"],
     [name |-> "Leases", path |-> "/dashboard/leases"],
     [name |-> "Invoices", path |-> "/dashboard/invoices"],
     [name |-> "Payments", path |-> "/dashboard/payments"],
     [name |-> "Maintenance", path |-> "/dashboard/maintenance"] >>

AccountItem == [name |-> "Account Management", path |-> AccountPath]

\* variant: the account-management link is rendered for every user
SidebarLinks_Ungated(user) == navItems \o <<AccountItem>>

\* Sidebar: navItems, then the account-management link under
\* user?.role === 'ADMIN'
SidebarLinks(user) ==
  navItems \o (IF user # null /\ Get(user).role = "ADMIN"
               THEN <<AccountItem>>
               ELSE <<>>)

LinkNames(user) == { SidebarLinks(user)[i].name : i \in 1..Len(SidebarLinks(user)) }
LinkPaths(user) == { SidebarLinks(user)[i].path : i \in 1..Len(SidebarLinks(user)) }

\* the endpoint a list view fetches its collection from
Endpoint(page) ==
  CASE page = "/dashboard/tenants" -> "/tenants"
    [] page = "/dashboard/properties" -> "/properties"
    [] page = "/dashboard/landlords" -> "/landlords"
    [] page = AccountPath -> "/users"

\* ---------------------------------------------------------------- responses
\* body of a successful /auth/login response: { token, data: { user } }
LoginData == { [token |-> t, data |-> [user |-> u]] : t \in Tokens, u \in Users }
ErrorResponses ==
  { HttpResponse(s, null) : s \in Statuses \ {200} } \cup {NetworkError}

NoOutcome ==
  [id |-> 0, path |-> "", body |-> null, response |-> NetworkError,
   result |-> [settled |-> "none", value |-> NetworkError]]

\* -------------------------------------------------------------------- Init
\* useState initial values of the Leases view and the Create Lease modal
InitLeasesView ==
  /\ leases = {}
  /\ isCreateModalOpen = FALSE
  /\ isTerminateModalOpen = FALSE
  /\ selectedLeaseId = null
  /\ isTerminating = FALSE
  /\ properties = {}
  /\ tenants = {}
  /\ newestApplied = 0

\* onSubmit is not running
Idle == [stage |-> "idle", queue |-> <<>>]

\* the Edit Property modal is not mounted
InitPropertyModal ==
  /\ isOpen = FALSE
  /\ landlords = {}
  /\ existingUnits = {}
  /\ unitsToDelete = <<>>
  /\ isSubmitting = FALSE
  /\ submission = Idle
  /\ closures = {}
  /\ started = [toggles |-> 0, submits |-> 0]

InitViews == InitLeasesView /\ InitPropertyModal

\* a document load destroys every component's state
UnmountLeasesView ==
  /\ leases' = {}
  /\ isCreateModalOpen' = FALSE
  /\ isTerminateModalOpen' = FALSE
  /\ selectedLeaseId' = null
  /\ isTerminating' = FALSE
  /\ properties' = {}
  /\ tenants' = {}
  /\ newestApplied' = 0

UnmountPropertyModal ==
  /\ isOpen' = FALSE
  /\ landlords' = {}
  /\ existingUnits' = {}
  /\ unitsToDelete' = <<>>
  /\ isSubmitting' = FALSE
  /\ submission' = Idle
  /\ closures' = {}
  /\ started' = [toggles |-> 0, submits |-> 0]

UnmountViews == UnmountLeasesView /\ UnmountPropertyModal

InitSession ==
  /\ localStorage \in
       {EmptyStorage} \cup { save(EmptyStorage, t, u) : t \in Tokens, u \in Users }
  /\ authState = load(localStorage)
  /\ location \in Paths
  /\ href = location
  /\ reloadPending = FALSE
  /\ screen = AppRoutes(location, isAuthenticated(authState))
  /\ inflight = {}
  /\ nextId = 1
  /\ outcome = NoOutcome
  /\ toast = "none"
  /\ everHeld = IF localStorage.token = null THEN {} ELSE {Get(localStorage.token)}
  /\ cleared401 = FALSE
  /\ selectedUser = null
  /\ isEditModalOpen = FALSE
  /\ InitViews

\* the application built with the client that has both interceptors
Init == InitSession /\ client = ApiFull

\* the application built with the copy that has no response interceptor
InitRequestOnly == InitSession /\ client = ApiRequestOnly

\* ----------------------------------------------------------------- actions
\* variant: the application starts logged out, whatever the store holds
Load_NoRestore(p) ==
  /\ authState' = LoggedOut
  /\ location' = p
  /\ href' = p
  /\ reloadPending' = FALSE
  /\ screen' = AppRoutes(p, isAuthenticated(authState'))
  /\ inflight' = {}
  /\ toast' = "none"
  /\ selectedUser' = null
  /\ isEditModalOpen' = FALSE
  /\ UnmountViews
  /\ UNCHANGED <<localStorage, nextId, outcome, everHeld, cleared401, client>>

\* a document load at path p: the application starts, the Auth Context
\* initialises from the store, requests of the old document are gone
Load(p) ==
  /\ authState' = load(localStorage)
  /\ location' = p
  /\ href' = p
  /\ reloadPending' = FALSE
  /\ screen' = AppRoutes(p, isAuthenticated(authState'))
  /\ inflight' = {}
  /\ toast' = "none"
  /\ selectedUser' = null
  /\ isEditModalOpen' = FALSE
  /\ UnmountViews
  /\ UNCHANGED <<localStorage, nextId, outcome, everHeld, cleared401, client>>

\* the reload forced by window.location.href = '/login', or a user's reload
PageLoad == Load(IF reloadPending THEN LoginPath ELSE href)

\* the user opens a URL of the application
VisitUrl(p) ==
  /\ ~reloadPending
  /\ p # href
  /\ Load(p)

\* <Navigate to=... replace />
NavigateEffect ==
  /\ screen.el = "Navigate"
  /\ location' = screen.to
  /\ href' = screen.to
  /\ screen' = AppRoutes(screen.to, IsAuthenticated)
  /\ selectedUser' = null
  /\ isEditModalOpen' = FALSE
  /\ UNCHANGED viewVars
  /\ UNCHANGED <<localStorage, authState, reloadPending, inflight, nextId,
                 outcome, toast, everHeld, cleared401, client>>

\* a sidebar link
NavClick(p) ==
  /\ screen.el = "DashboardLayout"
  /\ p \in LinkPaths(authState.user)
  /\ p # location
  /\ location' = p
  /\ href' = p
  /\ screen' = AppRoutes(p, IsAuthenticated)
  /\ selectedUser' = null
  /\ isEditModalOpen' = FALSE
  /\ UNCHANGED viewVars
  /\ UNCHANGED <<localStorage, authState, reloadPending, inflight, nextId,
                 outcome, toast, everHeld, cleared401, client>>

\* the request the API client puts on the wire: the request interceptor has
\* run on its config
Request(path, body) ==
  [id |-> nextId,
   path |-> path,
   body |-> body,
   auth |-> RequestInterceptor(NewConfig(path), localStorage).headers.Authorization,
   tokenAtIssue |-> getItem(localStorage, "token"),
   after401 |-> cleared401]

\* a request with a body goes out through the API client
SendWith(path, body) ==
  /\ nextId <= MaxReq
  /\ inflight' = inflight \cup {Request(path, body)}
  /\ nextId' = nextId + 1
  /\ UNCHANGED client

\* a request without a body
Send(path) == SendWith(path, null)

\* Login.onSubmit up to the await
SubmitLogin ==
  /\ screen.el = "Login"
  /\ ~reloadPending
  /\ \A r \in inflight : r.path # LoginEndpoint
  /\ Send(LoginEndpoint)
  /\ UNCHANGED <<localStorage, authState, location, href, reloadPending,
                 screen, outcome, toast, everHeld, cleared401, selectedUser,
                 isEditModalOpen, viewVars>>

\* the API client settles request r with response resp: the response
\* interceptor's storage and window effects, and what the caller observes
Is401(resp) == resp.hasResponse /\ resp.status = 401

Observe(r, resp, s) ==
  /\ r \in inflight
  /\ outcome' = [id |-> r.id, path |-> r.path, body |-> r.body,
                 response |-> resp, result |-> s.result]
  /\ reloadPending' = s.win.reloadPending

Deliver(r, resp, s) ==
  /\ Observe(r, resp, s)
  /\ inflight' = inflight \ {r}
  /\ UNCHANGED <<nextId, client>>

\* variant: the token is read from a field the body does not have
Credentials_WrongField(body) == [token |-> "", user |-> body.data.user]

\* const { token, data: { user } } = response.data
Credentials(body) == [token |-> body.token, user |-> body.data.user]

\* variant: the try block navigates without calling login(token, user)
onSubmit_NoLogin(r, resp) ==
  LET s == Settle(resp, Window)
  IN /\ r.path = LoginEndpoint
     /\ Deliver(r, resp, s)
     /\ IF s.result.settled = "fulfilled" /\ s.result.value.data # null
        THEN /\ localStorage' = s.win.localStorage
             /\ toast' = "success"
             /\ location' = DashboardPath
             /\ href' = DashboardPath
             /\ UNCHANGED <<authState, everHeld>>
             /\ screen' = AppRoutes(DashboardPath, isAuthenticated(authState'))
             /\ cleared401' = FALSE
             /\ selectedUser' = null
             /\ isEditModalOpen' = FALSE
             /\ UNCHANGED viewVars
        ELSE /\ localStorage' = s.win.localStorage
             /\ href' = s.win.href
             /\ toast' = "error"
             /\ cleared401' = (cleared401 \/ Is401(resp))
             /\ UNCHANGED <<authState, location, screen, everHeld,
                            selectedUser, isEditModalOpen, viewVars>>

\* Login.onSubmit after the await: the try block when the promise is
\* fulfilled with { token, data: { user } }, the catch block otherwise
onSubmit(r, resp) ==
  LET s == Settle(resp, Window)
  IN /\ r.path = LoginEndpoint
     /\ Deliver(r, resp, s)
     /\ IF s.result.settled = "fulfilled" /\ s.result.value.data # null
        THEN LET data == Credentials(Get(s.result.value.data))
                 a == login(s.win.localStorage, data.token, data.user)
             IN /\ localStorage' = a.localStorage
                /\ authState' = a.authState
                /\ toast' = "success"
                /\ location' = DashboardPath
                /\ href' = DashboardPath
                /\ screen' = AppRoutes(DashboardPath, isAuthenticated(authState'))
                /\ everHeld' = everHeld \cup {data.token}
                /\ cleared401' = FALSE
                /\ selectedUser' = null
                /\ isEditModalOpen' = FALSE
                /\ UNCHANGED viewVars
        ELSE /\ localStorage' = s.win.localStorage
             /\ href' = s.win.href
             /\ toast' = "error"
             /\ cleared401' = (cleared401 \/ Is401(resp))
             /\ UNCHANGED <<authState, location, screen, everHeld,
                            selectedUser, isEditModalOpen, viewVars>>

LoginOk(r, data) == onSubmit(r, HttpResponse(200, Some(data)))

LoginFail(r, resp) == onSubmit(r, resp)

\* a list view's fetch up to the await
Fetch ==
  /\ screen.el = "DashboardLayout"
  /\ location \in Pages
  /\ Send(Endpoint(location))
  /\ UNCHANGED <<localStorage, authState, location, href, reloadPending,
                 screen, outcome, toast, everHeld, cleared401, selectedUser,
                 isEditModalOpen, viewVars>>

\* variant: the client ignores a 401 for a request whose Authorization header
\* is not the one the stored token would give now
fetchSettled_OwnSessionOnly(r, resp) ==
  LET stale == RequestInterceptor(NewConfig(r.path), localStorage)
                 .headers.Authorization # r.auth
      s == IF stale /\ ~ValidateStatus(resp)
           THEN Unhandled(resp, Window)
           ELSE Settle(resp, Window)
  IN /\ r.path \in { Endpoint(pg) : pg \in Pages }
     /\ Deliver(r, resp, s)
     /\ localStorage' = s.win.localStorage
     /\ href' = s.win.href
     /\ toast' = IF s.result.settled = "fulfilled" THEN toast ELSE "error"
     /\ cleared401' = (cleared401 \/ Is401(resp))
     /\ UNCHANGED <<authState, location, screen, everHeld, selectedUser,
                    isEditModalOpen, viewVars>>

\* a list view's fetch after the await: the collection is replaced when the
\* promise is fulfilled, the catch block shows an error otherwise
fetchSettled(r, resp) ==
  LET s == Settle(resp, Window)
  IN /\ r.path \in { Endpoint(pg) : pg \in Pages }
     /\ Deliver(r, resp, s)
     /\ localStorage' = s.win.localStorage
     /\ href' = s.win.href
     /\ toast' = IF s.result.settled = "fulfilled" THEN toast ELSE "error"
     /\ cleared401' = (cleared401 \/ Is401(resp))
     /\ UNCHANGED <<authState, location, screen, everHeld, selectedUser,
                    isEditModalOpen, viewVars>>

FetchOk(r) == fetchSettled(r, HttpResponse(200, null))

FetchFail(r, resp) == fetchSettled(r, resp)

\* `/users/${user.id}`
UserPath(id) == "/users/" \o id

UserPaths == { UserPath(u.id) : u \in Users }

Roles == { u.role : u \in Users }

\* the Edit User modal is on screen
EditModalShown ==
  /\ screen.el = "DashboardLayout"
  /\ location = AccountPath
  /\ selectedUser # null
  /\ isEditModalOpen

\* AccountManagement.handleEdit: the Edit button of a row
handleEdit(u) ==
  /\ screen.el = "DashboardLayout"
  /\ location = AccountPath
  /\ ~isEditModalOpen
  /\ selectedUser' = Some(u)
  /\ isEditModalOpen' = TRUE
  /\ UNCHANGED viewVars
  /\ UNCHANGED <<localStorage, authState, location, href, reloadPending,
                 screen, inflight, nextId, outcome, toast, everHeld,
                 cleared401, client>>

\* the modal's onClose: Cancel or the X button
onClose ==
  /\ EditModalShown
  /\ selectedUser' = null
  /\ isEditModalOpen' = FALSE
  /\ UNCHANGED viewVars
  /\ UNCHANGED <<localStorage, authState, location, href, reloadPending,
                 screen, inflight, nextId, outcome, toast, everHeld,
                 cleared401, client>>

\* EditUserModal.onSubmit up to the await: the form is disabled while a
\* submission is pending
EditUserSubmit(role) ==
  /\ EditModalShown
  /\ \A r \in inflight : r.path \notin UserPaths
  /\ SendWith(UserPath(Get(selectedUser).id), Some(role))
  /\ UNCHANGED <<localStorage, authState, location, href, reloadPending,
                 screen, outcome, toast, everHeld, cleared401, selectedUser,
                 isEditModalOpen, viewVars>>

\* variant: a successful edit of the signed-in user's own record is copied
\* into the session
EditUser_SyncsSession(r, resp) ==
  LET s == Settle(resp, Window)
      mine == /\ authState.user # null
              /\ r.path = UserPath(Get(authState.user).id)
      u == [id |-> Get(authState.user).id, role |-> Get(r.body)]
  IN /\ r.path \in UserPaths
     /\ Observe(r, resp, s)
     /\ href' = s.win.href
     /\ cleared401' = (cleared401 \/ Is401(resp))
     /\ UNCHANGED <<location, screen, everHeld, client>>
     /\ IF s.result.settled = "fulfilled"
        THEN /\ nextId <= MaxReq
             /\ toast' = "success"
             /\ inflight' = (inflight \ {r}) \cup {Request("/users", null)}
             /\ nextId' = nextId + 1
             /\ selectedUser' = null
             /\ isEditModalOpen' = FALSE
             /\ UNCHANGED viewVars
             /\ IF mine
                THEN /\ authState' = [authState EXCEPT !.user = Some(u)]
                     /\ localStorage' =
                          setItem(s.win.localStorage, "user", Stringify(u))
                ELSE /\ localStorage' = s.win.localStorage
                     /\ UNCHANGED authState
        ELSE /\ toast' = "error"
             /\ inflight' = inflight \ {r}
             /\ localStorage' = s.win.localStorage
             /\ UNCHANGED <<authState, nextId, selectedUser, isEditModalOpen, viewVars>>

\* EditUserModal.onSubmit after the await: on success a toast, onSuccess()
\* (the parent's fetchUsers) and onClose(); the catch block shows an error
EditUser(r, resp) ==
  LET s == Settle(resp, Window)
  IN /\ r.path \in UserPaths
     /\ Observe(r, resp, s)
     /\ localStorage' = s.win.localStorage
     /\ href' = s.win.href
     /\ cleared401' = (cleared401 \/ Is401(resp))
     /\ UNCHANGED <<authState, location, screen, everHeld, client>>
     /\ IF s.result.settled = "fulfilled"
        THEN /\ nextId <= MaxReq
             /\ toast' = "success"
             /\ inflight' = (inflight \ {r}) \cup {Request("/users", null)}
             /\ nextId' = nextId + 1
             /\ selectedUser' = null
             /\ isEditModalOpen' = FALSE
             /\ UNCHANGED viewVars
        ELSE /\ toast' = "error"
             /\ inflight' = inflight \ {r}
             /\ UNCHANGED <<nextId, selectedUser, isEditModalOpen, viewVars>>

EditUserOk(r) == EditUser(r, HttpResponse(200, null))

EditUserFail(r, resp) == EditUser(r, resp)

\* variant: Sign Out resets the in-memory state and leaves the store alone
Logout_MemoryOnly ==
  /\ screen.el = "DashboardLayout"
  /\ ~reloadPending
  /\ authState' = LoggedOut
  /\ screen' = AppRoutes(location, isAuthenticated(authState'))
  /\ UNCHANGED <<localStorage, location, href, reloadPending, inflight, nextId,
                 outcome, toast, everHeld, cleared401, client, selectedUser,
                 isEditModalOpen, viewVars>>

\* variant: Sign Out also navigates to the login route
Logout_Navigates ==
  LET a == logout(localStorage)
  IN /\ screen.el = "DashboardLayout"
     /\ ~reloadPending
     /\ localStorage' = a.localStorage
     /\ authState' = a.authState
     /\ location' = LoginPath
     /\ href' = LoginPath
     /\ screen' = AppRoutes(LoginPath, isAuthenticated(authState'))
     /\ UNCHANGED <<reloadPending, inflight, nextId, outcome, toast, everHeld,
                    cleared401, client, selectedUser, isEditModalOpen, viewVars>>

\* the sidebar's Sign Out button
Logout ==
  LET a == logout(localStorage)
  IN /\ screen.el = "DashboardLayout"
     /\ ~reloadPending
     /\ localStorage' = a.localStorage
     /\ authState' = a.authState
     /\ screen' = AppRoutes(location, isAuthenticated(authState'))
     /\ UNCHANGED <<location, href, reloadPending, inflight, nextId, outcome,
                    toast, everHeld, cleared401, client, selectedUser,
                    isEditModalOpen, viewVars>>

Next ==
  \/ PageLoad
  \/ \E p \in Paths : VisitUrl(p)
  \/ NavigateEffect
  \/ \E p \in ProtectedPaths : NavClick(p)
  \/ SubmitLogin
  \/ \E r \in inflight, d \in LoginData : LoginOk(r, d)
  \/ \E r \in inflight, e \in ErrorResponses : LoginFail(r, e)
  \/ Fetch
  \/ \E r \in inflight : FetchOk(r)
  \/ \E r \in inflight, e \in ErrorResponses : FetchFail(r, e)
  \/ Logout
  \/ \E u \in Users : handleEdit(u)
  \/ onClose
  \/ \E role \in Roles : EditUserSubmit(role)
  \/ \E r \in inflight : EditUserOk(r)
  \/ \E r \in inflight, e \in ErrorResponses : EditUserFail(r, e)

Spec == Init /\ [][Next]_vars

\* the same application built with the copy of the client that has no
\* response interceptor
SpecRequestOnly == InitRequestOnly /\ [][Next]_vars

\* ============================================================ Leases view
LeasesPath == "/dashboard/leases"

\* ids of the leases the backend may list
LeaseIds == {"l1"}

\* response.data.data.leases
LeaseLists == SUBSET LeaseIds

\* `/leases/${selectedLeaseId}/terminate`
TerminatePath(id) == "/leases/" \o id \o "/terminate"

TerminatePaths == { TerminatePath(id) : id \in LeaseIds }

\* the body of api.post('/leases', data)
LeaseFormData == Some("data")

LeasesMounted == screen.el = "DashboardLayout" /\ location = LeasesPath

\* the k-th further request issued in one step
Issue(k, path, body) == [Request(path, body) EXCEPT !.id = nextId + k]

\* what the API client does with a response, for every handler of the view
ClientSettles(r, resp, s) ==
  /\ Observe(r, resp, s)
  /\ localStorage' = s.win.localStorage
  /\ href' = s.win.href
  /\ cleared401' = (cleared401 \/ Is401(resp))
  /\ UNCHANGED <<sessionFrame, client>>

Fulfilled(s) == s.result.settled = "fulfilled" /\ s.result.value.data # null

\* variant: a response of a fetch older than one already applied is dropped
leasesFetched_DropsStale(r, resp) ==
  LET s == Settle(resp, Window)
  IN /\ r.path = "/leases"
     /\ r.body = null
     /\ ClientSettles(r, resp, s)
     /\ UNCHANGED propertyVars
     /\ inflight' = inflight \ {r}
     /\ IF Fulfilled(s)
        THEN /\ leases' = IF r.id > newestApplied
                          THEN Get(s.result.value.data)
                          ELSE leases
             /\ newestApplied' = IF r.id > newestApplied THEN r.id ELSE newestApplied
             /\ UNCHANGED toast
        ELSE /\ toast' = "error"
             /\ UNCHANGED <<leases, newestApplied>>
     /\ UNCHANGED <<nextId, isCreateModalOpen, isTerminateModalOpen,
                    selectedLeaseId, isTerminating, properties, tenants>>

\* fetchLeases after the await: setLeases on success, toast.error in the
\* catch block
leasesFetched(r, resp) ==
  LET s == Settle(resp, Window)
  IN /\ r.path = "/leases"
     /\ r.body = null
     /\ ClientSettles(r, resp, s)
     /\ UNCHANGED propertyVars
     /\ inflight' = inflight \ {r}
     /\ IF Fulfilled(s)
        THEN /\ leases' = Get(s.result.value.data)
             /\ newestApplied' = IF r.id > newestApplied THEN r.id ELSE newestApplied
             /\ UNCHANGED toast
        ELSE /\ toast' = "error"
             /\ UNCHANGED <<leases, newestApplied>>
     /\ UNCHANGED <<nextId, isCreateModalOpen, isTerminateModalOpen,
                    selectedLeaseId, isTerminating, properties, tenants>>

LeasesOk(r, list) == leasesFetched(r, HttpResponse(200, Some(list)))

LeasesFail(r, resp) == leasesFetched(r, resp)

\* the Terminate button of a row
confirmTerminate(id) ==
  /\ LeasesMounted
  /\ ~isCreateModalOpen
  /\ ~isTerminateModalOpen
  /\ id \in leases
  /\ selectedLeaseId' = Some(id)
  /\ isTerminateModalOpen' = TRUE
  /\ UNCHANGED <<localStorage, href, reloadPending, inflight, nextId, outcome,
                 toast, cleared401, client, sessionFrame, propertyVars, leases,
                 isCreateModalOpen, isTerminating, properties, tenants,
                 newestApplied>>

\* the confirmation modal's onClose: Cancel or the X button, disabled while
\* isLoading
closeTerminateModal ==
  /\ LeasesMounted
  /\ isTerminateModalOpen
  /\ ~isTerminating
  /\ isTerminateModalOpen' = FALSE
  /\ UNCHANGED <<localStorage, href, reloadPending, inflight, nextId, outcome,
                 toast, cleared401, client, sessionFrame, propertyVars, leases,
                 isCreateModalOpen, selectedLeaseId, isTerminating,
                 properties, tenants, newestApplied>>

\* variant: the in-progress flag is not raised
handleTerminate_NoFlag ==
  /\ LeasesMounted
  /\ isTerminateModalOpen
  /\ ~isTerminating
  /\ selectedLeaseId # null
  /\ nextId <= MaxCalls
  /\ inflight' = inflight \cup {Issue(0, TerminatePath(Get(selectedLeaseId)), null)}
  /\ nextId' = nextId + 1
  /\ UNCHANGED <<localStorage, href, reloadPending, outcome, toast,
                 cleared401, client, sessionFrame, propertyVars, leases, isCreateModalOpen,
                 isTerminateModalOpen, selectedLeaseId, isTerminating,
                 properties, tenants, newestApplied>>

\* handleTerminate up to the await: the Confirm button, disabled while
\* isLoading; without a selected lease the handler returns at once
handleTerminate ==
  /\ LeasesMounted
  /\ isTerminateModalOpen
  /\ ~isTerminating
  /\ selectedLeaseId # null
  /\ nextId <= MaxCalls
  /\ isTerminating' = TRUE
  /\ inflight' = inflight \cup {Issue(0, TerminatePath(Get(selectedLeaseId)), null)}
  /\ nextId' = nextId + 1
  /\ UNCHANGED <<localStorage, href, reloadPending, outcome, toast,
                 cleared401, client, sessionFrame, propertyVars, leases, isCreateModalOpen,
                 isTerminateModalOpen, selectedLeaseId, properties, tenants,
                 newestApplied>>

\* variant: the catch block sends the request again
terminateSettled_Retries(r, resp) ==
  LET s == Settle(resp, Window)
  IN /\ r.path \in TerminatePaths
     /\ nextId <= MaxCalls
     /\ ClientSettles(r, resp, s)
     /\ UNCHANGED propertyVars
     /\ nextId' = nextId + 1
     /\ IF s.result.settled = "fulfilled"
        THEN /\ toast' = "success"
             /\ inflight' = (inflight \ {r}) \cup {Issue(0, "/leases", null)}
             /\ isTerminateModalOpen' = FALSE
             /\ isTerminating' = FALSE
             /\ selectedLeaseId' = null
        ELSE /\ toast' = "error"
             /\ inflight' = (inflight \ {r}) \cup {Issue(0, r.path, null)}
             /\ UNCHANGED <<isTerminateModalOpen, isTerminating, selectedLeaseId>>
     /\ UNCHANGED <<leases, isCreateModalOpen, properties, tenants,
                    newestApplied>>

\* variant: the modal is closed in the finally block
terminateSettled_ClosesAlways(r, resp) ==
  LET s == Settle(resp, Window)
  IN /\ r.path \in TerminatePaths
     /\ ClientSettles(r, resp, s)
     /\ UNCHANGED propertyVars
     /\ IF s.result.settled = "fulfilled"
        THEN /\ nextId <= MaxCalls
             /\ toast' = "success"
             /\ inflight' = (inflight \ {r}) \cup {Issue(0, "/leases", null)}
             /\ nextId' = nextId + 1
        ELSE /\ toast' = "error"
             /\ inflight' = inflight \ {r}
             /\ UNCHANGED nextId
     /\ isTerminateModalOpen' = FALSE
     /\ isTerminating' = FALSE
     /\ selectedLeaseId' = null
     /\ UNCHANGED <<leases, isCreateModalOpen, properties, tenants,
                    newestApplied>>

\* handleTerminate after the await: on success a toast, fetchLeases() and
\* the modal is closed; the catch block shows an error; the finally block
\* lowers the flag and forgets the selected lease
terminateSettled(r, resp) ==
  LET s == Settle(resp, Window)
  IN /\ r.path \in TerminatePaths
     /\ ClientSettles(r, resp, s)
     /\ UNCHANGED propertyVars
     /\ IF s.result.settled = "fulfilled"
        THEN /\ nextId <= MaxCalls
             /\ toast' = "success"
             /\ inflight' = (inflight \ {r}) \cup {Issue(0, "/leases", null)}
             /\ nextId' = nextId + 1
             /\ isTerminateModalOpen' = FALSE
        ELSE /\ toast' = "error"
             /\ inflight' = inflight \ {r}
             /\ UNCHANGED <<nextId, isTerminateModalOpen>>
     /\ isTerminating' = FALSE
     /\ selectedLeaseId' = null
     /\ UNCHANGED <<leases, isCreateModalOpen, properties, tenants,
                    newestApplied>>

TerminateOk(r) == terminateSettled(r, HttpResponse(200, null))

TerminateFail(r, resp) == terminateSettled(r, resp)

\* the Create Lease button; the modal's effect on isOpen fetches its options
openCreateModal ==
  /\ LeasesMounted
  /\ ~isCreateModalOpen
  /\ ~isTerminateModalOpen
  /\ nextId + 1 <= MaxCalls
  /\ isCreateModalOpen' = TRUE
  /\ inflight' = inflight \cup {Issue(0, "/properties", null),
                                Issue(1, "/tenants", null)}
  /\ nextId' = nextId + 2
  /\ UNCHANGED <<localStorage, href, reloadPending, outcome, toast,
                 cleared401, client, sessionFrame, propertyVars, leases,
                 isTerminateModalOpen, selectedLeaseId, isTerminating,
                 properties, tenants, newestApplied>>

\* the Create Lease modal's onClose
closeCreateModal ==
  /\ LeasesMounted
  /\ isCreateModalOpen
  /\ isCreateModalOpen' = FALSE
  /\ UNCHANGED <<localStorage, href, reloadPending, inflight, nextId, outcome,
                 toast, cleared401, client, sessionFrame, propertyVars, leases,
                 isTerminateModalOpen, selectedLeaseId, isTerminating,
                 properties, tenants, newestApplied>>

\* CreateLeaseModal.fetchProperties after the await: the catch block only
\* logs to the console
propertiesFetched(r, resp) ==
  LET s == Settle(resp, Window)
  IN /\ r.path = "/properties"
     /\ ClientSettles(r, resp, s)
     /\ UNCHANGED propertyVars
     /\ inflight' = inflight \ {r}
     /\ properties' = IF Fulfilled(s) THEN Get(s.result.value.data) ELSE properties
     /\ UNCHANGED <<nextId, toast, leases, isCreateModalOpen,
                    isTerminateModalOpen, selectedLeaseId, isTerminating,
                    tenants, newestApplied>>

\* CreateLeaseModal.fetchTenants after the await: the catch block only logs
\* to the console
tenantsFetched(r, resp) ==
  LET s == Settle(resp, Window)
  IN /\ r.path = "/tenants"
     /\ ClientSettles(r, resp, s)
     /\ UNCHANGED propertyVars
     /\ inflight' = inflight \ {r}
     /\ tenants' = IF Fulfilled(s) THEN Get(s.result.value.data) ELSE tenants
     /\ UNCHANGED <<nextId, toast, leases, isCreateModalOpen,
                    isTerminateModalOpen, selectedLeaseId, isTerminating,
                    properties, newestApplied>>

\* CreateLeaseModal.onSubmit up to the await: the form is valid only with a
\* property and a tenant chosen from the options, and is disabled while a
\* submission is pending
CreateLeaseSubmit ==
  /\ LeasesMounted
  /\ isCreateModalOpen
  /\ properties # {}
  /\ tenants # {}
  /\ \A r \in inflight : ~(r.path = "/leases" /\ r.body # null)
  /\ nextId <= MaxCalls
  /\ inflight' = inflight \cup {Issue(0, "/leases", LeaseFormData)}
  /\ nextId' = nextId + 1
  /\ UNCHANGED <<localStorage, href, reloadPending, outcome, toast,
                 cleared401, client, sessionFrame, propertyVars, leasesVars>>

\* CreateLeaseModal.onSubmit after the await: on success a toast,
\* onSuccess() (the view's fetchLeases) and onClose(); the catch block shows
\* an error
CreateLease(r, resp) ==
  LET s == Settle(resp, Window)
  IN /\ r.path = "/leases"
     /\ r.body # null
     /\ ClientSettles(r, resp, s)
     /\ UNCHANGED propertyVars
     /\ IF s.result.settled = "fulfilled"
        THEN /\ nextId <= MaxCalls
             /\ toast' = "success"
             /\ inflight' = (inflight \ {r}) \cup {Issue(0, "/leases", null)}
             /\ nextId' = nextId + 1
             /\ isCreateModalOpen' = FALSE
        ELSE /\ toast' = "error"
             /\ inflight' = inflight \ {r}
             /\ UNCHANGED <<nextId, isCreateModalOpen>>
     /\ UNCHANGED <<leases, isTerminateModalOpen, selectedLeaseId,
                    isTerminating, properties, tenants, newestApplied>>

CreateLeaseOk(r) == CreateLease(r, HttpResponse(200, null))

CreateLeaseFail(r, resp) == CreateLease(r, resp)

\* the reload that the 401 branch forced
ForcedReload == reloadPending /\ PageLoad

\* a signed-in user has opened the Leases view: the mount effect has issued
\* fetchLeases
InitLeases ==
  /\ localStorage = save(EmptyStorage, "T1", [id |-> "u1", role |-> "ADMIN"])
  /\ authState = load(localStorage)
  /\ location = LeasesPath
  /\ href = LeasesPath
  /\ reloadPending = FALSE
  /\ screen = ShellEl
  /\ nextId = 2
  /\ cleared401 = FALSE
  /\ inflight = {[Issue(0, "/leases", null) EXCEPT !.id = 1]}
  /\ outcome = NoOutcome
  /\ toast = "none"
  /\ everHeld = {"T1"}
  /\ client = ApiFull
  /\ selectedUser = null
  /\ isEditModalOpen = FALSE
  /\ InitViews

NextLeases ==
  \/ \E r \in inflight, list \in LeaseLists : LeasesOk(r, list)
  \/ \E r \in inflight, e \in ErrorResponses : LeasesFail(r, e)
  \/ \E id \in LeaseIds : confirmTerminate(id)
  \/ closeTerminateModal
  \/ handleTerminate
  \/ \E r \in inflight : TerminateOk(r)
  \/ \E r \in inflight, e \in ErrorResponses : TerminateFail(r, e)
  \/ openCreateModal
  \/ closeCreateModal
  \/ \E r \in inflight : propertiesFetched(r, HttpResponse(200, Some({"p1"})))
  \/ \E r \in inflight, e \in ErrorResponses : propertiesFetched(r, e)
  \/ \E r \in inflight : tenantsFetched(r, HttpResponse(200, Some({"t1"})))
  \/ \E r \in inflight, e \in ErrorResponses : tenantsFetched(r, e)
  \/ CreateLeaseSubmit
  \/ \E r \in inflight : CreateLeaseOk(r)
  \/ \E r \in inflight, e \in ErrorResponses : CreateLeaseFail(r, e)
  \/ ForcedReload

SpecLeases == InitLeases /\ [][NextLeases]_vars

\* ===================================================== Edit Property modal
PropertiesPath == "/dashboard/properties"

\* ids of the units of the edited property
UnitIds == {"u1", "u2"}

\* property.units
PropertyUnits == { [id |-> u, status |-> "VACANT"] : u \in UnitIds }

\* `/properties/${property.id}`
PropertyPath == "/properties/p1"

\* `/units/${unitId}`
UnitPath(id) == "/units/" \o id

UnitPaths == { UnitPath(id) : id \in UnitIds }

\* the unit a request to /units/... is about
UnitOf(path) == CHOOSE id \in UnitIds : UnitPath(id) = path

\* the FormData body of the property PATCH
PropertyFormData == Some("formData")

\* currentStatus === 'VACANT' ? 'OCCUPIED' : 'VACANT'
NewStatus(currentStatus) ==
  IF currentStatus = "VACANT" THEN "OCCUPIED" ELSE "VACANT"

\* list.map(unit => unit.id === unitId ? { ...unit, status } : unit)
WithStatus(list, unitId, status) ==
  { IF u.id = unitId THEN [u EXCEPT !.status = status] ELSE u : u \in list }

\* list.filter(unit => unit.id !== unitId)
Without(list, unitId) == { u \in list : u.id # unitId }

Ids(list) == { u.id : u \in list }

Range(seq) == { seq[i] : i \in 1..Len(seq) }

IsUnitToggle(r) == r.path \in UnitPaths /\ r.body # null

IsUnitDelete(r) == r.path \in UnitPaths /\ r.body = null

IsPropertyPatch(r) == r.path = PropertyPath /\ r.body # null

\* toggleUnitStatus up to the await: the call keeps the existingUnits of the
\* render it was made in
toggleUnitStatus(unit) ==
  /\ isOpen
  /\ unit \in existingUnits
  /\ started.toggles < MaxToggles
  /\ started' = [started EXCEPT !.toggles = @ + 1]
  /\ inflight' = inflight \cup
       {Issue(0, UnitPath(unit.id), Some(NewStatus(unit.status)))}
  /\ closures' = closures \cup {[id |-> nextId, existingUnits |-> existingUnits]}
  /\ nextId' = nextId + 1
  /\ UNCHANGED <<localStorage, href, reloadPending, outcome, toast,
                 cleared401, client, sessionFrame, leasesVars, isOpen,
                 landlords, existingUnits, unitsToDelete, isSubmitting,
                 submission>>

\* variant: the list is updated from the current state, not from the
\* captured one
unitToggled_FromCurrent(r, resp) ==
  LET s == Settle(resp, Window)
      c == CHOOSE x \in closures : x.id = r.id
  IN /\ IsUnitToggle(r)
     /\ ClientSettles(r, resp, s)
     /\ inflight' = inflight \ {r}
     /\ closures' = closures \ {c}
     /\ IF s.result.settled = "fulfilled"
        THEN /\ existingUnits' =
                  IF isOpen
                  THEN WithStatus(existingUnits, UnitOf(r.path), Get(r.body))
                  ELSE existingUnits
             /\ toast' = "success"
        ELSE /\ toast' = "error"
             /\ UNCHANGED existingUnits
     /\ UNCHANGED <<nextId, leasesVars, isOpen, landlords, unitsToDelete,
                    isSubmitting, submission, started>>

\* toggleUnitStatus after the await: setExistingUnits(existingUnits.map(...))
\* with the captured list, then a toast; the catch block shows an error
unitToggled(r, resp) ==
  LET s == Settle(resp, Window)
      c == CHOOSE x \in closures : x.id = r.id
  IN /\ IsUnitToggle(r)
     /\ ClientSettles(r, resp, s)
     /\ inflight' = inflight \ {r}
     /\ closures' = closures \ {c}
     /\ IF s.result.settled = "fulfilled"
        THEN /\ existingUnits' =
                  IF isOpen
                  THEN WithStatus(c.existingUnits, UnitOf(r.path), Get(r.body))
                  ELSE existingUnits
             /\ toast' = "success"
        ELSE /\ toast' = "error"
             /\ UNCHANGED existingUnits
     /\ UNCHANGED <<nextId, leasesVars, isOpen, landlords, unitsToDelete,
                    isSubmitting, submission, started>>

\* the trash button of an existing unit
markUnitForDeletion(unitId) ==
  /\ isOpen
  /\ unitId \in Ids(existingUnits)
  /\ unitsToDelete' = Append(unitsToDelete, unitId)
  /\ existingUnits' = Without(existingUnits, unitId)
  /\ UNCHANGED <<localStorage, href, reloadPending, inflight, nextId, outcome,
                 toast, cleared401, client, sessionFrame, leasesVars, isOpen,
                 landlords, isSubmitting, submission, closures, started>>

\* onSubmit up to the first await: the Update Property button, disabled while
\* isSubmitting; the handler keeps the unitsToDelete of its render
EditPropertySubmit ==
  /\ isOpen
  /\ ~isSubmitting
  /\ started.submits < MaxSubmits
  /\ started' = [started EXCEPT !.submits = @ + 1]
  /\ isSubmitting' = TRUE
  /\ submission' = [stage |-> "patch", queue |-> unitsToDelete]
  /\ inflight' = inflight \cup {Issue(0, PropertyPath, PropertyFormData)}
  /\ nextId' = nextId + 1
  /\ UNCHANGED <<localStorage, href, reloadPending, outcome, toast,
                 cleared401, client, sessionFrame, leasesVars, isOpen,
                 landlords, existingUnits, unitsToDelete, closures>>

\* onSubmit between two awaits: the next unit DELETE of the loop, or, after
\* the last one, the success path (toast, state reset, onSuccess, the
\* parent's onClose) and the finally block
Continue(r, queue) ==
  /\ nextId' = nextId + 1
  /\ IF queue # <<>>
     THEN /\ inflight' = (inflight \ {r}) \cup
                           {Issue(0, UnitPath(Head(queue)), null)}
          /\ submission' = [stage |-> "delete", queue |-> Tail(queue)]
          /\ UNCHANGED <<toast, isOpen, landlords, existingUnits,
                         unitsToDelete, isSubmitting>>
     ELSE /\ inflight' = (inflight \ {r}) \cup {Issue(0, "/properties", null)}
          /\ submission' = Idle
          /\ toast' = "success"
          /\ UnmountPropertyModal!1
          /\ UnmountPropertyModal!2
          /\ UnmountPropertyModal!3
          /\ UnmountPropertyModal!4
          /\ UnmountPropertyModal!5

\* onSubmit after the PATCH: the loop over the marked units on success, the
\* outer catch and finally blocks on failure
propertyPatched(r, resp) ==
  LET s == Settle(resp, Window)
  IN /\ IsPropertyPatch(r)
     /\ ClientSettles(r, resp, s)
     /\ IF s.result.settled = "fulfilled"
        THEN Continue(r, submission.queue)
        ELSE /\ toast' = "error"
             /\ inflight' = inflight \ {r}
             /\ isSubmitting' = FALSE
             /\ submission' = Idle
             /\ UNCHANGED <<nextId, isOpen, landlords, existingUnits,
                            unitsToDelete>>
     /\ UNCHANGED <<leasesVars, closures, started>>

\* variant: a failing unit DELETE reaches the outer catch block
unitDeleted_StopsOnFailure(r, resp) ==
  LET s == Settle(resp, Window)
  IN /\ IsUnitDelete(r)
     /\ ClientSettles(r, resp, s)
     /\ IF s.result.settled = "fulfilled"
        THEN Continue(r, submission.queue)
        ELSE /\ toast' = "error"
             /\ inflight' = inflight \ {r}
             /\ isSubmitting' = FALSE
             /\ submission' = Idle
             /\ UNCHANGED <<nextId, isOpen, landlords, existingUnits,
                            unitsToDelete>>
     /\ UNCHANGED <<leasesVars, closures, started>>

\* onSubmit after a unit DELETE: the inner catch block only logs, the loop
\* goes on
unitDeleted(r, resp) ==
  LET s == Settle(resp, Window)
  IN /\ IsUnitDelete(r)
     /\ ClientSettles(r, resp, s)
     /\ Continue(r, submission.queue)
     /\ UNCHANGED <<leasesVars, closures, started>>

\* Properties.fetchProperties after the await, for the refetch that
\* onSuccess started
propertiesRefetched(r, resp) ==
  LET s == Settle(resp, Window)
  IN /\ r.path = "/properties"
     /\ ClientSettles(r, resp, s)
     /\ inflight' = inflight \ {r}
     /\ toast' = IF s.result.settled = "fulfilled" THEN toast ELSE "error"
     /\ UNCHANGED <<nextId, leasesVars, propertyVars>>

\* the modal's onClose (Cancel or X): the parent unmounts the modal, a
\* running onSubmit goes on
closeEditProperty ==
  /\ isOpen
  /\ UnmountPropertyModal!1
  /\ UnmountPropertyModal!2
  /\ UnmountPropertyModal!3
  /\ UnmountPropertyModal!4
  /\ UnmountPropertyModal!5
  /\ UNCHANGED <<localStorage, href, reloadPending, inflight, nextId, outcome,
                 toast, cleared401, client, sessionFrame, leasesVars,
                 submission, closures, started>>

\* a signed-in user has opened the Edit Property modal for a property with
\* two vacant units: the effect on isOpen has run and its fetchLandlords has
\* been answered
InitEditProperty ==
  /\ localStorage = save(EmptyStorage, "T1", [id |-> "u1", role |-> "ADMIN"])
  /\ authState = load(localStorage)
  /\ location = PropertiesPath
  /\ href = PropertiesPath
  /\ reloadPending = FALSE
  /\ screen = ShellEl
  /\ nextId = 2
  /\ cleared401 = FALSE
  /\ inflight = {}
  /\ outcome = [id |-> 1, path |-> "/landlords", body |-> null,
                response |-> HttpResponse(200, Some({"ll1"})),
                result |-> [settled |-> "fulfilled",
                            value |-> HttpResponse(200, Some({"ll1"}))]]
  /\ toast = "none"
  /\ everHeld = {"T1"}
  /\ client = ApiFull
  /\ selectedUser = null
  /\ isEditModalOpen = FALSE
  /\ InitLeasesView
  /\ isOpen = TRUE
  /\ landlords = {"ll1"}
  /\ existingUnits = PropertyUnits
  /\ unitsToDelete = <<>>
  /\ isSubmitting = FALSE
  /\ submission = Idle
  /\ closures = {}
  /\ started = [toggles |-> 0, submits |-> 0]

NextEditProperty ==
  \/ \E unit \in existingUnits : toggleUnitStatus(unit)
  \/ \E r \in inflight : unitToggled(r, HttpResponse(200, null))
  \/ \E r \in inflight, e \in ErrorResponses : unitToggled(r, e)
  \/ \E id \in UnitIds : markUnitForDeletion(id)
  \/ EditPropertySubmit
  \/ \E r \in inflight : propertyPatched(r, HttpResponse(200, null))
  \/ \E r \in inflight, e \in ErrorResponses : propertyPatched(r, e)
  \/ \E r \in inflight : unitDeleted(r, HttpResponse(200, null))
  \/ \E r \in inflight, e \in ErrorResponses : unitDeleted(r, e)
  \/ \E r \in inflight : propertiesRefetched(r, HttpResponse(200, null))
  \/ \E r \in inflight, e \in ErrorResponses : propertiesRefetched(r, e)
  \/ closeEditProperty
  \/ ForcedReload

SpecEditProperty == InitEditProperty /\ [][NextEditProperty]_vars


\* ------------------------------------------------------------------ claims
\* a step in which the API client settles a response
Settles == outcome' # outcome

\* C1: whenever a response with status 401 is processed, afterwards the
\* store holds neither token nor user and the window's route is /login.
C1_Clears401 ==
  [][ (Settles /\ Is401(outcome'.response)) =>
        /\ localStorage'.token = null
        /\ localStorage'.user = null
        /\ href' = LoginPath ]_vars

\* a 401 arrived for a request that was sent under a session
C1_Witness ==
  /\ Is401(outcome.response)
  /\ everHeld # {}
  /\ localStorage = EmptyStorage
  /\ href = LoginPath
  /\ reloadPending

\* C2: a request issued while the store holds a token carries
\* Authorization = "Bearer " + that token.
C2_BearerCurrentToken ==
  \A r \in inflight :
    r.tokenAtIssue # null => r.auth = Some("Bearer " \o Get(r.tokenAtIssue))

\* after T1 was held and replaced by T2, a request carries Bearer T2
C2_Witness ==
  /\ "T1" \in everHeld
  /\ localStorage.token = Some("T2")
  /\ \E r \in inflight : r.auth = Some("Bearer T2") /\ r.path # LoginEndpoint

\* C3: a request carries an Authorization header iff the store holds a
\* token when it is issued.
C3_HeaderIffToken ==
  \A r \in inflight : (r.auth # null) <=> (r.tokenAtIssue # null)

\* a session existed, is gone, and a request went out without a header
C3_Witness ==
  /\ everHeld # {}
  /\ \E r \in inflight : r.tokenAtIssue = null /\ r.auth = null

\* C4: a fulfilled response to a view's request leaves the session as it
\* was, and a request issued after a 401 with no login in between carries
\* no Authorization header.
C4_After401Unauthenticated ==
  /\ [](\A r \in inflight : r.after401 => r.auth = null)
  /\ [][ (Settles /\ outcome'.path # LoginEndpoint
            /\ outcome'.response.hasResponse /\ outcome'.response.status = 200)
         => (localStorage' = localStorage /\ authState' = authState) ]_vars

\* GET /landlords goes out unauthenticated after a 401 cleared the session
C4_Witness ==
  /\ cleared401
  /\ \E r \in inflight :
       r.path = "/landlords" /\ r.after401 /\ r.auth = null

\* C5: the store holds a token iff it holds a user, and so does the Auth
\* Context's in-memory state.
C5_TokenIffUser ==
  /\ (localStorage.token = null) <=> (localStorage.user = null)
  /\ (authState.token = null) <=> (authState.user = null)

\* a 401 has removed a stored session
C5_Witness ==
  /\ cleared401
  /\ everHeld # {}
  /\ localStorage.token = null
  /\ localStorage.user = null

\* C6 as stated: isAuthenticated is true iff the store holds a token.
C6_AsStated == IsAuthenticated <=> Truthy(localStorage.token)

\* C6, amended: a stored token implies isAuthenticated, and isAuthenticated
\* without a stored token occurs only while the reload forced by a 401 is
\* pending.
C6_UntilReload ==
  /\ Truthy(localStorage.token) => IsAuthenticated
  /\ (IsAuthenticated /\ ~Truthy(localStorage.token)) => reloadPending

\* the forced reload has run: the context is logged out on /login
C6_Witness ==
  /\ cleared401
  /\ Is401(outcome.response)
  /\ ~reloadPending
  /\ ~IsAuthenticated
  /\ location = LoginPath

\* C7: an error response is settled as a rejection carrying that same
\* error, never as a fulfilled result; for a 401 the store is cleared and
\* the route set to /login in the same step.
C7_RejectsAfterSideEffect ==
  [][ (Settles /\ outcome'.response \in ErrorResponses) =>
        /\ outcome'.result.settled = "rejected"
        /\ outcome'.result.value = outcome'.response
        /\ Is401(outcome'.response) =>
             (localStorage' = EmptyStorage /\ href' = LoginPath) ]_vars

\* a 401 was rejected to the caller, which showed its message
C7_Witness ==
  /\ Is401(outcome.response)
  /\ outcome.result.settled = "rejected"
  /\ toast = "error"
  /\ localStorage = EmptyStorage

\* C8: a failure other than a 401 is rejected with the error unchanged and
\* leaves the stored token, the stored user and the route unchanged.
C8_OtherErrorsPassThrough ==
  [][ (Settles /\ outcome'.response \in ErrorResponses
         /\ ~Is401(outcome'.response)) =>
        /\ outcome'.result = [settled |-> "rejected", value |-> outcome'.response]
        /\ localStorage' = localStorage
        /\ authState' = authState
        /\ href' = href
        /\ location' = location
        /\ reloadPending' = reloadPending ]_vars

\* a 500 was passed through and the session is still there
C8_Witness ==
  /\ outcome.response = HttpResponse(500, null)
  /\ outcome.result.settled = "rejected"
  /\ localStorage.token # null
  /\ IsAuthenticated
  /\ ~reloadPending

\* C9: on a route under /dashboard the shell is rendered iff
\* isAuthenticated; otherwise the guard renders the redirect to /login, and
\* the shell is never on screen without isAuthenticated.
C9_GuardAdmitsIffAuthenticated ==
  /\ location \in ProtectedPaths => (screen = ShellEl <=> IsAuthenticated)
  /\ (location \in ProtectedPaths /\ ~IsAuthenticated) =>
       screen = NavigateEl(LoginPath)
  /\ screen = ShellEl => (location \in ProtectedPaths /\ IsAuthenticated)

\* a session ended by Sign Out on a protected route: the guard redirects
C9_Witness ==
  /\ location \in Pages
  /\ everHeld # {}
  /\ ~cleared401
  /\ ~IsAuthenticated
  /\ localStorage = EmptyStorage
  /\ screen = NavigateEl(LoginPath)

\* C10: when the login form's request is fulfilled, login(token, user)
\* leaves isAuthenticated true and user equal to the user of the response.
C10_LoginThenRead ==
  [][ (Settles /\ outcome'.path = LoginEndpoint
         /\ outcome'.response.hasResponse /\ outcome'.response.status = 200) =>
        /\ isAuthenticated(authState')
        /\ authState'.token = Some(Get(outcome'.response.data).token)
        /\ authState'.user = Some(Get(outcome'.response.data).data.user) ]_vars

\* a STAFF user has just logged in with T2
C10_Witness ==
  /\ outcome.path = LoginEndpoint
  /\ outcome.result.settled = "fulfilled"
  /\ IsAuthenticated
  /\ authState.token = Some("T2")
  /\ authState.user = Some([id |-> "u2", role |-> "STAFF"])


\* C11: after logout() isAuthenticated is false, user is null, and the
\* store holds neither token nor user.
C11_LogoutClears ==
  [][ Logout =>
        /\ ~isAuthenticated(authState')
        /\ authState'.user = null
        /\ localStorage'.token = null
        /\ localStorage'.user = null ]_vars

\* Sign Out was pressed on the dashboard index under a session
C11_Witness ==
  /\ location = DashboardPath
  /\ href = DashboardPath
  /\ everHeld # {}
  /\ ~cleared401
  /\ authState = LoggedOut
  /\ localStorage = EmptyStorage
  /\ screen.el = "Navigate"

\* C12 as stated: when the server answers /auth/login with an error status,
\* an error notification is shown and the store, the in-memory session, the
\* route and the login form are as before, with no reload.
C12_AsStated ==
  [][ (Settles /\ outcome'.path = LoginEndpoint
         /\ outcome'.response.hasResponse
         /\ outcome'.response \in ErrorResponses) =>
        /\ toast' = "error"
        /\ localStorage' = localStorage
        /\ authState' = authState
        /\ location' = location
        /\ href' = href
        /\ screen' = screen
        /\ reloadPending' = reloadPending ]_vars

\* C13: when /auth/login is fulfilled the session is stored and the route
\* is /dashboard with the shell rendered, not the redirect to /login.
C13_LoginThenDashboard ==
  [][ (Settles /\ outcome'.path = LoginEndpoint
         /\ outcome'.response.hasResponse /\ outcome'.response.status = 200) =>
        /\ Truthy(localStorage'.token)
        /\ localStorage'.user # null
        /\ location' = DashboardPath
        /\ href' = DashboardPath
        /\ screen' = ShellEl ]_vars

\* a login from the login form has landed on the dashboard
C13_Witness ==
  /\ outcome.path = LoginEndpoint
  /\ outcome.result.settled = "fulfilled"
  /\ location = DashboardPath
  /\ screen = ShellEl
  /\ toast = "success"
  /\ ~reloadPending

\* C14: a restart with a saved session restores it: the in-memory session
\* after load() is the one held before, and it is the stored token and the
\* stored user decoded.
C14_SaveThenLoad ==
  [][ ((PageLoad \/ \E p \in Paths : VisitUrl(p))
         /\ Truthy(localStorage.token)) =>
        /\ authState' = authState
        /\ authState'.token = localStorage.token
        /\ authState'.user # null
        /\ Stringify(Get(authState'.user)) = Get(localStorage.user) ]_vars

\* the page was reloaded after a login: the session of the login response
\* is the one in memory
C14_Witness ==
  /\ outcome.path = LoginEndpoint
  /\ outcome.result.settled = "fulfilled"
  /\ toast = "none"
  /\ outcome.response.data # null
  /\ authState.token = Some(Get(outcome.response.data).token)
  /\ authState.user = Some(Get(outcome.response.data).data.user)

\* C19: logout() leaves the router location and the window location as
\* they were and requests no reload; on a protected route the guard then
\* renders the redirect to /login.
C19_LogoutDoesNotNavigate ==
  [][ Logout =>
        /\ location' = location
        /\ href' = href
        /\ reloadPending' = reloadPending
        /\ screen' = ProtectedRoute(FALSE, ShellEl) ]_vars

\* after Sign Out on a list page the location is still that page, and the
\* guard has rendered the redirect
C19_Witness ==
  /\ location \in Pages
  /\ href = location
  /\ everHeld # {}
  /\ ~cleared401
  /\ authState = LoggedOut
  /\ screen = NavigateEl(LoginPath)
  /\ ~reloadPending


\* ---------------------------------------------------------- role gating
\* what the shell shows in its outlet, when the shell is rendered
View == IF screen = ShellEl THEN Outlet(location, authState.user) ELSE "none"

CommonItems ==
  {"Dashboard", "Tenants", "Properties", "Landlords", "Leases", "Invoices",
   "Payments", "Maintenance"}

Profiles == [id : {"u1", "u2"}, role : {"ADMIN", "STAFF"}]

\* C15: on the dashboard index a STAFF user gets the staff view and an
\* ADMIN user the admin view, and users of the same role get the same view.
C15_DashboardByRole ==
  /\ (screen = ShellEl /\ location = DashboardPath /\ authState.user # null) =>
       /\ Get(authState.user).role = "STAFF" => View = "StaffDashboard"
       /\ Get(authState.user).role = "ADMIN" => View = "AdminDashboard"
  /\ \A u, v \in Profiles :
       u.role = v.role => Dashboard(Some(u)) = Dashboard(Some(v))

\* a STAFF user has logged in, is on the dashboard index and sees the staff
\* view
C15_Witness ==
  /\ outcome.path = LoginEndpoint
  /\ outcome.result.settled = "fulfilled"
  /\ screen = ShellEl
  /\ location = DashboardPath
  /\ authState.user # null
  /\ Get(authState.user).role = "STAFF"
  /\ View = "StaffDashboard"

\* C16: the sidebar lists the eight common items for every user, and the
\* Account Management entry iff the user's role is ADMIN.
C16_SidebarByRole ==
  (screen = ShellEl /\ authState.user # null) =>
     /\ CommonItems \subseteq LinkNames(authState.user)
     /\ ("Account Management" \in LinkNames(authState.user))
          <=> (Get(authState.user).role = "ADMIN")

\* a STAFF user has logged in: the shell is rendered without the entry
C16_Witness ==
  /\ outcome.path = LoginEndpoint
  /\ outcome.result.settled = "fulfilled"
  /\ toast = "success"
  /\ screen = ShellEl
  /\ authState.user # null
  /\ Get(authState.user).role = "STAFF"
  /\ "Account Management" \notin LinkNames(authState.user)
  /\ Cardinality(LinkNames(authState.user)) = 8

\* C17: the guard admits an authenticated user of either role to every
\* protected route, and on /dashboard/account-management the Account
\* Management view is rendered whatever the role.
C17_GatingIsRenderOnly ==
  (location \in ProtectedPaths /\ IsAuthenticated) =>
     /\ screen = ShellEl
     /\ location = AccountPath => View = "AccountManagement"

\* a STAFF user has logged in and opened the account-management URL, for
\* which the sidebar has no link: the view is rendered
C17_Witness ==
  /\ outcome.path = LoginEndpoint
  /\ outcome.result.settled = "fulfilled"
  /\ location = AccountPath
  /\ authState.user # null
  /\ Get(authState.user).role = "STAFF"
  /\ AccountPath \notin LinkPaths(authState.user)
  /\ screen = ShellEl
  /\ View = "AccountManagement"

\* ------------------------------------------------------- the shared client
\* C18: every request goes through the one shared API client: two requests
\* issued while the same token is stored carry the same Authorization value,
\* and no response skips the response interceptor, so that every 401 answer
\* empties the browser store and sends the browser to the login page.
C18_AsStated ==
  [][/\ \A r1, r2 \in inflight' :
          r1.tokenAtIssue = r2.tokenAtIssue => r1.auth = r2.auth
     /\ (Settles /\ Is401(outcome'.response)) =>
          /\ localStorage'.token = null
          /\ localStorage'.user = null
          /\ href' = LoginPath]_vars

\* ------------------------------------------------------------ editing users
\* a step in which the Edit User form's PATCH is answered with success
EditSucceeds ==
  /\ Settles
  /\ outcome'.path \in UserPaths
  /\ outcome'.result.settled = "fulfilled"

\* a step in which the login form's request is answered with success
LoginSucceeds ==
  /\ Settles
  /\ outcome'.path = LoginEndpoint
  /\ outcome'.result.settled = "fulfilled"

\* C20: the session's user (and so its role) is only ever replaced by a
\* successful login: every other step leaves it as it is or drops it, in
\* memory and in the store, and a successful PATCH /users/{id} from the Edit
\* User form leaves the session and the store untouched, whoever is edited.
C20_RoleFixedInSession ==
  [][/\ (authState'.user # authState.user /\ authState'.user # null)
          => LoginSucceeds
     /\ (localStorage'.user # localStorage.user /\ localStorage'.user # null)
          => LoginSucceeds
     /\ EditSucceeds =>
          /\ authState' = authState
          /\ localStorage' = localStorage
          /\ LinkNames(authState'.user) = LinkNames(authState.user)]_vars

\* the signed-in user has edited their own record to another role: the PATCH
\* succeeded, the list is being refetched, the session still has the old role
C20_Witness ==
  /\ authState.user # null
  /\ outcome.path = UserPath(Get(authState.user).id)
  /\ outcome.result.settled = "fulfilled"
  /\ outcome.body # null
  /\ Get(outcome.body) # Get(authState.user).role
  /\ localStorage.user = Some(Stringify(Get(authState.user)))
  /\ toast = "success"
  /\ \E r \in inflight : r.path = "/users" /\ r.id = outcome.id + 1

\* ------------------------------------------------- a 401 and a newer session
\* C26: the 401 handler clears the session stored when the response is
\* processed: a 401 for a request that was sent under another token than the
\* one stored now still empties the store and forces the navigation to the
\* login page.
C26_ClearsCurrentSession ==
  [][\A r \in inflight :
       (/\ Settles
        /\ outcome'.id = r.id
        /\ Is401(outcome'.response)
        /\ Truthy(localStorage.token)
        /\ r.tokenAtIssue # localStorage.token)
       => /\ localStorage'.token = null
          /\ localStorage'.user = null
          /\ href' = LoginPath
          /\ reloadPending']_vars

\* the first request of the run, a list fetch sent under the session the
\* application started with, was answered 401 after a login that stored the
\* other token: the store is empty, the reload is pending, and the Auth
\* Context still holds the newer session
C26_Witness ==
  /\ outcome.id = 1
  /\ outcome.path # LoginEndpoint
  /\ Is401(outcome.response)
  /\ everHeld = Tokens
  /\ authState.token # null
  /\ localStorage = EmptyStorage
  /\ href = LoginPath
  /\ reloadPending

\* ------------------------------------------------- the Leases view's calls
\* requests issued in a step
NewRequests == inflight' \ inflight

\* a step in which the API client hands a rejection to a handler
Rejects == Settles /\ outcome'.result.settled = "rejected"

IsLeasesFetch(r) == r.path = "/leases" /\ r.body = null

\* C21: every rejected call of a view ends in an error notification.
C21_AsStated ==
  [][Rejects => toast' = "error"]_vars

\* C22: no call is retried: handling a rejection issues no request, and
\* pressing Confirm issues exactly one terminate request.
C22_NoRetry ==
  [][/\ Rejects => (NewRequests = {} /\ nextId' = nextId)
     /\ (isTerminating' /\ ~isTerminating) =>
          /\ nextId' = nextId + 1
          /\ Cardinality(NewRequests) = 1
          /\ \A r \in NewRequests :
               r.path = TerminatePath(Get(selectedLeaseId))]_vars

\* a terminate request was rejected by the server: the modal is still open
\* and nothing is in flight for the lease
C22_Witness ==
  /\ outcome.path \in TerminatePaths
  /\ outcome.result.settled = "rejected"
  /\ outcome.response.hasResponse
  /\ outcome.response.status = 500
  /\ toast = "error"
  /\ ~isTerminating
  /\ \A r \in inflight : r.path \notin TerminatePaths

\* C23: a fetch of the collection that settles cancels no other request, and
\* when it is fulfilled the collection becomes its payload, whether or not a
\* fetch issued later has been applied already.
C23_LastArrivalWins ==
  [][\A r \in inflight :
       (Settles /\ outcome'.id = r.id /\ IsLeasesFetch(r)) =>
          /\ inflight \ {r} \subseteq inflight'
          /\ outcome'.result.settled = "fulfilled" =>
               leases' = Get(outcome'.response.data)]_vars

\* the fetch that arrived last was issued before one that had already been
\* applied, no fetch is outstanding, and the collection is its payload
C23_Witness ==
  /\ outcome.path = "/leases"
  /\ outcome.body = null
  /\ outcome.result.settled = "fulfilled"
  /\ outcome.id < newestApplied
  /\ leases = Get(outcome.response.data)
  /\ \A r \in inflight : ~IsLeasesFetch(r)

C25_AsStated ==
  [][(Rejects /\ ~Is401(outcome'.response)) =>
        /\ toast' = "error"
        /\ UNCHANGED <<leases, properties, tenants, isCreateModalOpen,
                       isTerminateModalOpen, selectedLeaseId>>]_vars

\* C27: while the confirmation modal is open the lease it targets is set.
C27_AsStated == isTerminateModalOpen => selectedLeaseId # null

\* the terminate requests in flight
Terminating == { r \in inflight : r.path \in TerminatePaths }

\* C28: at most one terminate request is in flight; the in-progress flag is
\* raised exactly while one is, with the modal open, and it is lowered when
\* the request settles, fulfilled or rejected.
C28_OneTerminateAtATime ==
  [][/\ Cardinality(Terminating') <= 1
     /\ isTerminating' <=> (Terminating' # {})
     /\ isTerminating' => isTerminateModalOpen'
     /\ (Settles /\ outcome'.path \in TerminatePaths) => ~isTerminating']_vars

\* a terminate request has settled and the next one, confirmed afterwards,
\* is in flight with the flag raised
C28_Witness ==
  /\ outcome.path \in TerminatePaths
  /\ isTerminating
  /\ isTerminateModalOpen
  /\ \E r \in inflight : r.path \in TerminatePaths /\ r.id > outcome.id

\* ------------------------------------------------ the Edit Property modal
\* C29: the units displayed as existing and the units marked for deletion
\* are disjoint.
C29_AsStated == Ids(existingUnits) \cap Range(unitsToDelete) = {}

UnitDeletes(S) == { r \in S : IsUnitDelete(r) }

\* a step in which the property PATCH is answered
PatchSettles == Settles /\ outcome'.path = PropertyPath /\ outcome'.body # null

\* a step in which a unit DELETE is answered
DeleteSettles == Settles /\ outcome'.path \in UnitPaths /\ outcome'.body = null

\* C30: the submission keeps the marked units in their order; a unit DELETE
\* is only issued when the PATCH has been fulfilled or the previous DELETE
\* has settled, one at a time and for the next marked unit; after a DELETE,
\* fulfilled or rejected, the handler goes on with the next one or with the
\* success path (toast, marked set emptied, refetch, modal closed); a
\* rejected PATCH issues nothing and keeps the marked set.
C30_DeletesFollowPatch ==
  [][/\ Cardinality(UnitDeletes(inflight')) <= 1
     /\ (isSubmitting' /\ ~isSubmitting) => submission'.queue = unitsToDelete
     /\ \A r \in UnitDeletes(NewRequests) :
          /\ \/ PatchSettles /\ outcome'.result.settled = "fulfilled"
             \/ DeleteSettles
          /\ submission.queue # <<>>
          /\ r.path = UnitPath(Head(submission.queue))
     /\ (DeleteSettles \/ (PatchSettles /\ outcome'.result.settled = "fulfilled")) =>
          IF submission.queue # <<>>
          THEN /\ UnitDeletes(NewRequests) # {}
               /\ submission'.queue = Tail(submission.queue)
          ELSE /\ toast' = "success"
               /\ \E r \in NewRequests : r.path = "/properties" /\ r.body = null
               /\ unitsToDelete' = <<>>
               /\ ~isOpen'
               /\ ~isSubmitting'
     /\ (PatchSettles /\ outcome'.result.settled = "rejected") =>
          /\ NewRequests = {}
          /\ UnitDeletes(inflight') = {}
          /\ submission' = Idle
          /\ unitsToDelete' = unitsToDelete]_vars

\* the DELETE of the first marked unit was rejected by the server and the
\* DELETE of the second one is in flight
C30_Witness ==
  /\ outcome.path \in UnitPaths
  /\ outcome.body = null
  /\ outcome.result.settled = "rejected"
  /\ outcome.response.hasResponse
  /\ outcome.response.status = 500
  /\ isSubmitting
  /\ submission.stage = "delete"
  /\ \E r \in inflight : IsUnitDelete(r) /\ r.path # outcome.path

====
